---- MODULE Spec2Model ----
(***************************************************************************)
(* Model of ColorPrinter (color_printer.h / color_printer.cpp): the        *)
(* coloured line printers, the printf-style formatter and the silent       *)
(* status indicator.                                                       *)
(*                                                                         *)
(* Text is a sequence of one-byte tokens.  Printable bytes are one-letter  *)
(* strings; the control bytes are the tokens ESC (0x1B), CR, LF and NUL.   *)
(* FLUSH is not a byte: it marks the place in the stream where std::cout   *)
(* was flushed (std::flush, or the flush std::endl does after its LF).     *)
(***************************************************************************)
EXTENDS Integers, Sequences, FiniteSets, TLC

VARIABLES
    counter,    \* the caller-owned int passed as countRef by the sequential caller
    trueCalls,  \* the caller's loop index: calls made so far with isSilent = true
    out,        \* what the most recent writing call put on std::cout
    call,       \* the overload and arguments of the call being made, or made last
    status,     \* "calling" before a call is made, then how it ended: "returned", or the fault
    size,       \* FormatPrintf's local int size: what the first vsnprintf returned
    result,     \* the std::string FormatString returned
    cell,       \* the counter cells of the concurrent call sites
    ref,        \* ref[t]: the cell thread t passes as countRef
    pc,         \* pc[t]: where thread t is inside PrintSilentStatusIndicator
    frame,      \* frame[t]: the arguments of thread t's current call
    written     \* written[t]: what thread t's current call has put on std::cout

vars == <<counter, trueCalls, out, call, status, size, result, cell, ref, pc, frame, written>>

seqVars == <<counter, trueCalls, out, call, status, size, result>>
stepVars == <<cell, ref, pc, frame, written>>

----------------------------------------------------------------------------
(* Bytes and text *)

ESC == "ESC"
CR == "CR"
LF == "LF"
NUL == "NUL"
FLUSH == "FLUSH"

Repeat(ch, n) == [k \in 1..n |-> ch]

Count(s, ch) == Cardinality({k \in DOMAIN s : s[k] = ch})

----------------------------------------------------------------------------
(* enum class PrintColor and GetColorCode *)

PrintColor == <<"RED", "GREEN", "YELLOW", "BLUE", "MAGENTA", "CYAN", "WHITE">>

Colors == {PrintColor[k] : k \in DOMAIN PrintColor}

reset_code == <<ESC, "[", "0", "m">>

\* A switch with two cases exchanged.
GetColorCodeSwapped(color) ==
    CASE color = "RED" -> <<ESC, "[", "3", "1", "m">>
      [] color = "GREEN" -> <<ESC, "[", "3", "2", "m">>
      [] color = "YELLOW" -> <<ESC, "[", "3", "3", "m">>
      [] color = "BLUE" -> <<ESC, "[", "3", "4", "m">>
      [] color = "MAGENTA" -> <<ESC, "[", "3", "6", "m">>
      [] color = "CYAN" -> <<ESC, "[", "3", "5", "m">>
      [] color = "WHITE" -> <<ESC, "[", "3", "7", "m">>
      [] OTHER -> reset_code

GetColorCode(color) ==
    CASE color = "RED" -> <<ESC, "[", "3", "1", "m">>
      [] color = "GREEN" -> <<ESC, "[", "3", "2", "m">>
      [] color = "YELLOW" -> <<ESC, "[", "3", "3", "m">>
      [] color = "BLUE" -> <<ESC, "[", "3", "4", "m">>
      [] color = "MAGENTA" -> <<ESC, "[", "3", "5", "m">>
      [] color = "CYAN" -> <<ESC, "[", "3", "6", "m">>
      [] color = "WHITE" -> <<ESC, "[", "3", "7", "m">>
      [] OTHER -> reset_code

----------------------------------------------------------------------------
(* PrintSilentStatusIndicator, statement by statement *)

MaxDots == 100

ClearWidth == 22

ResetValue == 1

InfoPrefix == <<"[", "I", "N", "F", "O", "]", " ">>

\* countRef++
Increment(n) == n + 1

\* A wrap one call early: if (countRef >= 100).
OverflowedAtLimit(n) == n >= MaxDots

\* if (countRef > 100)
Overflowed(n) == n > MaxDots

\* std::cout << "\r                      \r" << std::flush;
ClearLine == <<CR>> \o Repeat(" ", ClearWidth) \o <<CR, FLUSH>>

\* A loop that runs once too often: i <= countRef.
DotsInclusive(n) == Repeat(".", n + 1)

\* for (int i = 0; i < countRef; i++) std::cout << ".";
Dots(n) == Repeat(".", n)

\* std::cout << "\r" << color_code << "[INFO] "; the dots; << "\033[0m" << std::flush
RenderLine(color, n) ==
    <<CR>> \o GetColorCode(color) \o InfoPrefix \o Dots(n) \o reset_code \o <<FLUSH>>

\* A call that starts the sequence afresh when the flag is false.
IndicatorResultResetting(color, isSilent, n) ==
    IF ~isSilent
    THEN [count |-> 0, text |-> <<>>, wrote |-> FALSE]
    ELSE LET n1 == Increment(n)
             n2 == IF Overflowed(n1) THEN ResetValue ELSE n1
         IN [count |-> n2,
             text |-> (IF Overflowed(n1) THEN ClearLine ELSE <<>>) \o RenderLine(color, n2),
             wrote |-> TRUE]

\* The whole call on a cell holding n: the cell's new value and the text written.
IndicatorResult(color, isSilent, n) ==
    IF ~isSilent
    THEN [count |-> n, text |-> <<>>, wrote |-> FALSE]
    ELSE LET n1 == Increment(n)
             n2 == IF Overflowed(n1) THEN ResetValue ELSE n1
         IN [count |-> n2,
             text |-> (IF Overflowed(n1) THEN ClearLine ELSE <<>>) \o RenderLine(color, n2),
             wrote |-> TRUE]

----------------------------------------------------------------------------
(* The callers: a loop on one cell, and two call sites with a cell each *)

MaxCalls == 103

Threads == {1, 2}

Cells == {1, 2}

IdleFrame == [color |-> "RED", isSilent |-> FALSE, entry |-> 0]

NoCall == [op |-> "none", color |-> "RED", type |-> <<>>, arg |-> FALSE]

StepInit ==
    /\ cell = [c \in Cells |-> 0]
    /\ ref = [t \in Threads |-> t]
    /\ pc = [t \in Threads |-> "idle"]
    /\ frame = [t \in Threads |-> IdleFrame]
    /\ written = [t \in Threads |-> <<>>]

SeqInit ==
    /\ counter = 0
    /\ trueCalls = 0
    /\ out = <<>>
    /\ call = NoCall
    /\ status = "returned"
    /\ size = 0
    /\ result = <<>>

Init == SeqInit /\ StepInit

PrintSilentStatusIndicator(color, isSilent) ==
    LET r == IndicatorResult(color, isSilent, counter)
    IN /\ isSilent => trueCalls < MaxCalls
       /\ counter' = r.count
       /\ out' = IF r.wrote THEN r.text ELSE out
       /\ trueCalls' = IF isSilent THEN trueCalls + 1 ELSE trueCalls
       /\ call' = [op |-> "indicator", color |-> color, type |-> <<>>, arg |-> isSilent]
       /\ status' = "returned"
       /\ UNCHANGED <<size, result, stepVars>>

Indicate == \E color \in Colors, isSilent \in BOOLEAN : PrintSilentStatusIndicator(color, isSilent)

Next == Indicate

Spec == Init /\ [][Next]_vars

\* The same caller, with the cell holding some other value when the calls
\* begin: below 0, above 100, or near either end of the range.
CellSlack == 3

StartValues == ((0 - CellSlack)..CellSlack) \cup ((MaxDots - CellSlack)..(MaxDots + CellSlack))

AnyCellInit ==
    /\ counter \in StartValues
    /\ trueCalls = 0
    /\ out = <<>>
    /\ call = NoCall
    /\ status = "returned"
    /\ size = 0
    /\ result = <<>>
    /\ StepInit

SpecAnyCell == AnyCellInit /\ [][Next]_vars

----------------------------------------------------------------------------
(* Two call sites on two threads, one statement per step *)

NumStepColors == 2

StepColors == {PrintColor[k] : k \in 1..NumStepColors}

\* A counter kept in one static variable instead of the caller's cell.
CountRefStatic(t) == 1

\* The cell thread t's statement reads and writes: countRef.
CountRef(t) == ref[t]

\* Entry: bind the arguments; if (isSilent) { ... } and nothing else.
Enter(t, color, isSilent) ==
    /\ pc[t] = "idle"
    /\ frame' = [frame EXCEPT ![t] = [color |-> color, isSilent |-> isSilent,
                                      entry |-> cell[ref[t]]]]
    /\ written' = [written EXCEPT ![t] = <<>>]
    /\ pc' = [pc EXCEPT ![t] = IF isSilent THEN "increment" ELSE "idle"]
    /\ UNCHANGED <<cell, ref, seqVars>>

\* countRef++;
DoIncrement(t) ==
    /\ pc[t] = "increment"
    /\ cell' = [cell EXCEPT ![CountRef(t)] = Increment(@)]
    /\ pc' = [pc EXCEPT ![t] = "test"]
    /\ UNCHANGED <<ref, frame, written, seqVars>>

\* if (countRef > 100)
DoTest(t) ==
    /\ pc[t] = "test"
    /\ pc' = [pc EXCEPT ![t] = IF Overflowed(cell[CountRef(t)]) THEN "clear" ELSE "render"]
    /\ UNCHANGED <<cell, ref, frame, written, seqVars>>

\* std::cout << "\r   ...   \r" << std::flush;
DoClear(t) ==
    /\ pc[t] = "clear"
    /\ written' = [written EXCEPT ![t] = @ \o ClearLine]
    /\ pc' = [pc EXCEPT ![t] = "reset"]
    /\ UNCHANGED <<cell, ref, frame, seqVars>>

\* countRef = 1;
DoReset(t) ==
    /\ pc[t] = "reset"
    /\ cell' = [cell EXCEPT ![CountRef(t)] = ResetValue]
    /\ pc' = [pc EXCEPT ![t] = "render"]
    /\ UNCHANGED <<ref, frame, written, seqVars>>

\* The rendering statements, then return.
DoRender(t) ==
    /\ pc[t] = "render"
    /\ written' = [written EXCEPT ![t] = @ \o RenderLine(frame[t].color, cell[CountRef(t)])]
    /\ pc' = [pc EXCEPT ![t] = "idle"]
    /\ UNCHANGED <<cell, ref, frame, seqVars>>

StepEnter == \E t \in Threads, color \in StepColors, isSilent \in BOOLEAN : Enter(t, color, isSilent)

StepIncrement == \E t \in Threads : DoIncrement(t)

StepTest == \E t \in Threads : DoTest(t)

StepClear == \E t \in Threads : DoClear(t)

StepReset == \E t \in Threads : DoReset(t)

StepRender == \E t \in Threads : DoRender(t)

StepNext ==
    \/ StepEnter
    \/ StepIncrement
    \/ StepTest
    \/ StepClear
    \/ StepReset
    \/ StepRender

SpecSteps == Init /\ [][StepNext]_vars

\* Two threads that pass the same cell, holding a value in [0, 100], with no
\* synchronisation between them.
SharedInit ==
    /\ SeqInit
    /\ \E n \in 0..MaxDots : cell = [c \in Cells |-> IF c = 1 THEN n ELSE 0]
    /\ ref = [t \in Threads |-> 1]
    /\ pc = [t \in Threads |-> "idle"]
    /\ frame = [t \in Threads |-> IdleFrame]
    /\ written = [t \in Threads |-> <<>>]

MaxSharedCalls == 2

\* Entry of one of the true calls the two threads make between them.
EnterShared(t, color, isSilent) ==
    /\ pc[t] = "idle"
    /\ isSilent => trueCalls < MaxSharedCalls
    /\ trueCalls' = IF isSilent THEN trueCalls + 1 ELSE trueCalls
    /\ frame' = [frame EXCEPT ![t] = [color |-> color, isSilent |-> isSilent,
                                      entry |-> cell[ref[t]]]]
    /\ written' = [written EXCEPT ![t] = <<>>]
    /\ pc' = [pc EXCEPT ![t] = IF isSilent THEN "increment" ELSE "idle"]
    /\ UNCHANGED <<cell, ref, counter, out, call, status, size, result>>

StepEnterShared ==
    \E t \in Threads, color \in StepColors, isSilent \in BOOLEAN : EnterShared(t, color, isSilent)

SharedNext ==
    \/ StepEnterShared
    \/ StepIncrement
    \/ StepTest
    \/ StepClear
    \/ StepReset
    \/ StepRender

SpecShared == SharedInit /\ [][SharedNext]_vars

----------------------------------------------------------------------------
(* operator<< for the scalar payloads *)

Digit == <<"0", "1", "2", "3", "4", "5", "6", "7", "8", "9">>

RECURSIVE NatToStr(_)
NatToStr(n) ==
    IF n < 10 THEN <<Digit[n + 1]>> ELSE NatToStr(n \div 10) \o <<Digit[(n % 10) + 1]>>

\* std::cout << int: decimal digits, '-' before a negative value.
IntToStr(n) == IF n < 0 THEN <<"-">> \o NatToStr(0 - n) ELSE NatToStr(n)

\* std::cout << (value ? "true" : "false")
BoolToStr(value) == IF value THEN <<"t", "r", "u", "e">> ELSE <<"f", "a", "l", "s", "e">>

\* std::cout << char: the byte itself.
CharToStr(value) == <<value>>

RECURSIVE StripTrailingZeros(_)
StripTrailingZeros(s) ==
    IF s # <<>> /\ s[Len(s)] = "0" THEN StripTrailingZeros(SubSeq(s, 1, Len(s) - 1)) ELSE s

\* std::cout << float / double in the stream's default format (%g, 6 significant
\* digits).  A value is given in thousandths; below 1000 in magnitude it has at
\* most 6 significant digits, so it is printed in fixed notation, exactly, with
\* the trailing zeros of the fraction (and a bare decimal point) removed.
FloatToStr(milli) ==
    LET mag == IF milli < 0 THEN 0 - milli ELSE milli
        whole == mag \div 1000
        frac == mag % 1000
        fracDigits == StripTrailingZeros(<<Digit[(frac \div 100) + 1],
                                           Digit[((frac \div 10) % 10) + 1],
                                           Digit[(frac % 10) + 1]>>)
    IN (IF milli < 0 THEN <<"-">> ELSE <<>>)
       \o NatToStr(whole)
       \o (IF fracDigits = <<>> THEN <<>> ELSE <<".">> \o fracDigits)

----------------------------------------------------------------------------
(* PrintColoredMessage: the overloads that take one value *)

\* std::string(const char*): the bytes before the terminating NUL.
RECURSIVE CStringToString(_)
CStringToString(p) ==
    IF p = <<>> \/ Head(p) = NUL THEN <<>> ELSE <<Head(p)>> \o CStringToString(Tail(p))

\* std::cout << color_code << "[" << type << "] " << payload << reset_code << std::endl;
EmitLine(color_code, type, payload) ==
    color_code \o <<"[">> \o type \o <<"]", " ">> \o payload \o reset_code \o <<LF, FLUSH>>

\* message.find('%') != std::string::npos
HasFormatSpecifier(msg) == Count(msg, "%") > 0

\* A '%' branch that treats "%%" as an escaped percent sign.
RECURSIVE CollapsePercents(_)
CollapsePercents(msg) ==
    IF Len(msg) < 2 THEN msg
    ELSE IF msg[1] = "%" /\ msg[2] = "%" THEN <<"%">> \o CollapsePercents(Tail(Tail(msg)))
    ELSE <<Head(msg)>> \o CollapsePercents(Tail(msg))

StringLineFormatting(color, type, message) ==
    IF ~HasFormatSpecifier(message)
    THEN EmitLine(GetColorCode(color), type, message)
    ELSE EmitLine(GetColorCode(color), type, CollapsePercents(message))

\* The body shared by the two string overloads: both branches of the if.
StringLine(color, type, message) ==
    IF ~HasFormatSpecifier(message)
    THEN EmitLine(GetColorCode(color), type, message)
    ELSE EmitLine(GetColorCode(color), type, message)

MaxTypeLen == 2

MaxMsgLen == 3

MaxIntValue == 12

MaxWhole == 3

SeqsUpTo(A, n) == UNION {[1..k -> A] : k \in 0..n}

Types == {<<"I", "N", "F", "O">>} \cup SeqsUpTo({"O", "]"}, MaxTypeLen)

Messages == SeqsUpTo({"a", "%"}, MaxMsgLen)

\* const char* arguments: the message bytes in a NUL-terminated buffer.
CStrings == {m \o <<NUL>> : m \in Messages}

CharValues == {"A", "%", " "}

IntValues == (0 - MaxIntValue)..MaxIntValue

FloatValues ==
    {sign * (whole * 1000 + frac) :
        sign \in {1, -1}, whole \in 0..MaxWhole, frac \in {0, 1, 10, 140, 141, 500}}

\* A caller about to make one call: the overload and its arguments are chosen.
Args(op, values) ==
    {[op |-> op, color |-> color, type |-> type, arg |-> value] :
        color \in Colors, type \in Types, value \in values}

PrintCalls ==
    Args("cstr", CStrings) \cup Args("string", Messages) \cup Args("bool", BOOLEAN)
        \cup Args("char", CharValues) \cup Args("int", IntValues)
        \cup Args("float", FloatValues) \cup Args("double", FloatValues)

PrintInit ==
    /\ call \in PrintCalls
    /\ status = "calling"
    /\ out = <<>>
    /\ counter = 0
    /\ trueCalls = 0
    /\ size = 0
    /\ result = <<>>
    /\ StepInit

\* The call writes text to std::cout and returns.
Returned(text) ==
    /\ out' = text
    /\ status' = "returned"
    /\ UNCHANGED <<call, counter, trueCalls, size, result, stepVars>>

PrintColoredMessage_cstr ==
    /\ status = "calling" /\ call.op = "cstr"
    /\ Returned(StringLine(call.color, call.type, CStringToString(call.arg)))

PrintColoredMessage_string ==
    /\ status = "calling" /\ call.op = "string"
    /\ Returned(StringLine(call.color, call.type, call.arg))

PrintColoredMessage_bool ==
    /\ status = "calling" /\ call.op = "bool"
    /\ Returned(EmitLine(GetColorCode(call.color), call.type, BoolToStr(call.arg)))

PrintColoredMessage_char ==
    /\ status = "calling" /\ call.op = "char"
    /\ Returned(EmitLine(GetColorCode(call.color), call.type, CharToStr(call.arg)))

PrintColoredMessage_int ==
    /\ status = "calling" /\ call.op = "int"
    /\ Returned(EmitLine(GetColorCode(call.color), call.type, IntToStr(call.arg)))

PrintColoredMessage_float ==
    /\ status = "calling" /\ call.op = "float"
    /\ Returned(EmitLine(GetColorCode(call.color), call.type, FloatToStr(call.arg)))

PrintColoredMessage_double ==
    /\ status = "calling" /\ call.op = "double"
    /\ Returned(EmitLine(GetColorCode(call.color), call.type, FloatToStr(call.arg)))

PrintNext ==
    \/ PrintColoredMessage_cstr
    \/ PrintColoredMessage_string
    \/ PrintColoredMessage_bool
    \/ PrintColoredMessage_char
    \/ PrintColoredMessage_int
    \/ PrintColoredMessage_float
    \/ PrintColoredMessage_double

SpecPrint == PrintInit /\ [][PrintNext]_vars

----------------------------------------------------------------------------
(* FormatPrintf and the PrintColoredMessage template *)

\* A variadic argument: an int, or a const char* to the given bytes.
IntArg(n) == [t |-> "int", v |-> n]

StrArg(bytes) == [t |-> "str", v |-> bytes]

Ok(text) == [res |-> "ok", text |-> text]

Failed == [res |-> "fail", text |-> <<>>]

Segv == [res |-> "segv", text |-> <<>>]

\* What follows a conversion that produced `piece`.
Then(piece, rest) == IF rest.res = "ok" THEN Ok(piece \o rest.text) ELSE rest

\* vsnprintf(buf, n, format, args), before truncation to n: the text it wants
\* to write, or a failure (a negative return value), or a fault.
\*   "%%" writes '%'; "%d" consumes an int, "%s" a const char*.
\*   A format that ends inside a specifier makes it return -1.
\*   A conversion character it does not know is undefined: the C library in
\*   the build (libc) either copies the specifier or returns -1.
\*   A specifier with no argument left, or one of the wrong type, is
\*   undefined: it converts whatever it finds in the argument area (junk),
\*   and following a junk pointer may fault.
RECURSIVE Vsnprintf(_, _, _, _)
Vsnprintf(libc, junk, format, args) ==
    IF format = <<>> THEN Ok(<<>>)
    ELSE IF Head(format) # "%"
    THEN Then(<<Head(format)>>, Vsnprintf(libc, junk, Tail(format), args))
    ELSE IF Len(format) = 1 THEN Failed
    ELSE LET c == format[2]
             rest == Tail(Tail(format))
             left == IF args = <<>> THEN <<>> ELSE Tail(args)
         IN CASE c = "%" -> Then(<<"%">>, Vsnprintf(libc, junk, rest, args))
              [] c = "d" ->
                   IF args # <<>> /\ Head(args).t = "int"
                   THEN Then(IntToStr(Head(args).v), Vsnprintf(libc, junk, rest, left))
                   ELSE Then(IntToStr(junk.int), Vsnprintf(libc, junk, rest, left))
              [] c = "s" ->
                   IF args # <<>> /\ Head(args).t = "str"
                   THEN Then(Head(args).v, Vsnprintf(libc, junk, rest, left))
                   ELSE IF junk.segv THEN Segv
                   ELSE Then(junk.bytes, Vsnprintf(libc, junk, rest, left))
              [] OTHER ->
                   IF libc = "copies"
                   THEN Then(<<"%", c>>, Vsnprintf(libc, junk, rest, args))
                   ELSE Failed

\* The buffer after the second vsnprintf and result.resize(size): size bytes,
\* the text cut to size, or followed by the '\0' bytes the buffer was filled with.
Resized(text, n) ==
    IF Len(text) >= n THEN SubSeq(text, 1, n) ELSE text \o Repeat(NUL, n - Len(text))

FormatResult(fault, n, text) == [fault |-> fault, size |-> n, text |-> text]

\* A FormatPrintf that takes the terminating '\0' for part of the text.
FormatPrintfShort(libc, junk1, junk2, format, args) ==
    LET first == Vsnprintf(libc, junk1, format, args)
        second == Vsnprintf(libc, junk2, format, args)
        n == IF first.res = "ok" THEN Len(first.text) ELSE 0 - 1
    IN IF first.res = "segv" THEN FormatResult("SIGSEGV", 0, <<>>)
       ELSE IF n < 0 THEN FormatResult("none", n, <<>>)
       ELSE IF second.res = "segv" THEN FormatResult("SIGSEGV", n, <<>>)
       ELSE FormatResult("none", n, Resized(second.text, n - 1))

\* A FormatPrintf without the size < 0 test: result.resize(-1) throws.
FormatPrintfUnchecked(libc, junk1, junk2, format, args) ==
    LET first == Vsnprintf(libc, junk1, format, args)
        second == Vsnprintf(libc, junk2, format, args)
        n == IF first.res = "ok" THEN Len(first.text) ELSE 0 - 1
    IN IF first.res = "segv" THEN FormatResult("SIGSEGV", 0, <<>>)
       ELSE IF n < 0 THEN FormatResult("std::length_error", n, <<>>)
       ELSE IF second.res = "segv" THEN FormatResult("SIGSEGV", n, <<>>)
       ELSE FormatResult("none", n, Resized(second.text, n))

\* FormatPrintf(format, ...): vsnprintf once for the size, once into the buffer.
FormatPrintf(libc, junk1, junk2, format, args) ==
    LET first == Vsnprintf(libc, junk1, format, args)
        second == Vsnprintf(libc, junk2, format, args)
        n == IF first.res = "ok" THEN Len(first.text) ELSE 0 - 1
    IN IF first.res = "segv" THEN FormatResult("SIGSEGV", 0, <<>>)
       ELSE IF n < 0 THEN FormatResult("none", n, <<>>)
       ELSE IF second.res = "segv" THEN FormatResult("SIGSEGV", n, <<>>)
       ELSE FormatResult("none", n, Resized(second.text, n))

MaxFmtLen == 4

Formats == SeqsUpTo({"%", "d", "s", "y"}, MaxFmtLen)

ArgValues == {IntArg(85), StrArg(<<"o", "k">>)}

\* T first, Args... args: one argument at least.
ArgLists == {<<a>> : a \in ArgValues} \cup {<<a, b>> : a \in ArgValues, b \in ArgValues}

FormatTypes == {<<"I", "N", "F", "O">>, <<>>}

\* The colors of the formatted calls the README shows.
FormatColors == {"YELLOW", "RED"}

Libcs == {"copies", "fails"}

Junk ==
    {[int |-> 0 - 1, segv |-> TRUE, bytes |-> <<>>],
     [int |-> 7, segv |-> FALSE, bytes |-> <<"?">>]}

FormatCalls ==
    {[op |-> "format", color |-> color, type |-> type, arg |-> [format |-> f, args |-> a]] :
        color \in FormatColors, type \in FormatTypes, f \in Formats, a \in ArgLists}

FormatInit ==
    /\ call \in FormatCalls
    /\ status = "calling"
    /\ out = <<>>
    /\ counter = 0
    /\ trueCalls = 0
    /\ size = 0
    /\ result = <<>>
    /\ StepInit

\* template <typename T, typename... Args> PrintColoredMessage(color, type, format, first, args...)
PrintColoredMessage_format ==
    /\ status = "calling" /\ call.op = "format"
    /\ \E libc \in Libcs, junk1 \in Junk, junk2 \in Junk :
           LET message_str == FormatPrintf(libc, junk1, junk2, call.arg.format, call.arg.args)
           IN /\ size' = message_str.size
              /\ IF message_str.fault = "none"
                 THEN /\ out' = EmitLine(GetColorCode(call.color), call.type, message_str.text)
                      /\ status' = "returned"
                 ELSE /\ out' = out
                      /\ status' = message_str.fault
    /\ UNCHANGED <<call, counter, trueCalls, result, stepVars>>

FormatNext == PrintColoredMessage_format

SpecFormat == FormatInit /\ [][FormatNext]_vars

----------------------------------------------------------------------------
(* The FormatString templates: scan for '%' and substitute, one argument at a time *)

\* c == 'd' || c == 'i' || ... || c == 'n'
IsTypeChar(c) ==
    c \in {"d", "i", "u", "o", "x", "X", "f", "F", "e", "E", "g", "G",
           "a", "A", "c", "s", "p", "n"}

\* c == '-' || c == '+' || c == ' ' || c == '#' || c == '0' || (c >= '0' && c <= '9') || c == '.'
IsFlagChar(c) ==
    c \in {"-", "+", " ", "#", ".", "0", "1", "2", "3", "4", "5", "6", "7", "8", "9"}

\* The while loop from end_pos on: where it stops and whether it found a type.
\* Positions count from 1; end_pos is the first position not in the specifier.
RECURSIVE ScanSpecifier(_, _)
ScanSpecifier(text, end_pos) ==
    IF end_pos > Len(text) THEN [end_pos |-> end_pos, found_specifier |-> FALSE]
    ELSE IF IsTypeChar(text[end_pos]) THEN [end_pos |-> end_pos + 1, found_specifier |-> TRUE]
    ELSE IF IsFlagChar(text[end_pos]) THEN ScanSpecifier(text, end_pos + 1)
    ELSE [end_pos |-> end_pos, found_specifier |-> FALSE]

\* result.find('%'): the first position of '%', 0 for npos.
RECURSIVE FindPercent(_, _)
FindPercent(text, from) ==
    IF from > Len(text) THEN 0
    ELSE IF text[from] = "%" THEN from
    ELSE FindPercent(text, from + 1)

\* result.replace(pos, len, replacement)
Replace(text, pos, len, replacement) ==
    SubSeq(text, 1, pos - 1) \o replacement \o SubSeq(text, pos + len, Len(text))

\* std::stringstream ss; ss << first; ss.str()
StreamArg(a) == IF a.t = "int" THEN IntToStr(a.v) ELSE a.v

\* One level of the template: the first argument put in place of the first '%'.
SubstituteFirst(format, first) ==
    LET pos == FindPercent(format, 1)
        scan == ScanSpecifier(format, pos + 1)
    IN IF pos = 0 THEN format
       ELSE IF scan.found_specifier
       THEN Replace(format, pos, scan.end_pos - pos, StreamArg(first))
       ELSE Replace(format, pos, 1, StreamArg(first))

\* FormatString(format, first, args...): substitute, then recurse on the rest;
\* FormatString(format) with no argument returns format.
RECURSIVE FormatString(_, _)
FormatString(format, args) ==
    IF args = <<>> THEN format
    ELSE FormatString(SubstituteFirst(format, Head(args)), Tail(args))

ScanFormats == SeqsUpTo({"%", "d", "5", "y"}, MaxFmtLen)

FormatStringCalls ==
    {[op |-> "FormatString", color |-> "RED", type |-> <<>>,
      arg |-> [format |-> f, args |-> a]] : f \in ScanFormats, a \in ArgLists}

\* A caller of either formatting path: the PrintColoredMessage template, or
\* FormatString itself.
ScanInit ==
    /\ call \in FormatCalls \cup FormatStringCalls
    /\ status = "calling"
    /\ out = <<>>
    /\ counter = 0
    /\ trueCalls = 0
    /\ size = 0
    /\ result = <<>>
    /\ StepInit

CallFormatString ==
    /\ status = "calling" /\ call.op = "FormatString"
    /\ result' = FormatString(call.arg.format, call.arg.args)
    /\ status' = "returned"
    /\ UNCHANGED <<call, counter, trueCalls, out, size, stepVars>>

ScanNext ==
    \/ PrintColoredMessage_format
    \/ CallFormatString

SpecScan == ScanInit /\ [][ScanNext]_vars

----------------------------------------------------------------------------
(* Reading the terminal stream back *)

RECURSIVE AfterLastCR(_)
AfterLastCR(s) ==
    IF Count(s, CR) = 0 THEN s ELSE AfterLastCR(Tail(s))

RECURSIVE UpToFirst(_, _)
UpToFirst(s, ch) ==
    IF s = <<>> THEN <<>>
    ELSE IF Head(s) = ch THEN <<ch>>
    ELSE <<Head(s)>> \o UpToFirst(Tail(s), ch)

AfterFirst(s, ch) == SubSeq(s, Len(UpToFirst(s, ch)) + 1, Len(s))

\* The text a terminal shows: escape sequences (ESC ... m) and flush marks removed.
RECURSIVE Visible(_)
Visible(s) ==
    IF s = <<>> THEN <<>>
    ELSE IF Head(s) = ESC THEN Visible(AfterFirst(s, "m"))
    ELSE IF Head(s) = FLUSH THEN Visible(Tail(s))
    ELSE <<Head(s)>> \o Visible(Tail(s))

\* The last call was PrintSilentStatusIndicator with isSilent = true.
TrueCallMade == call.op = "indicator" /\ call.arg = TRUE

\* The bytes of a stream, without the flush marks.
Bytes(s) == SelectSeq(s, LAMBDA b : b # FLUSH)

IsDigit(ch) == \E d \in DOMAIN Digit : Digit[d] = ch

DigitValue(ch) == (CHOOSE d \in DOMAIN Digit : Digit[d] = ch) - 1

IsNatText(s) == s # <<>> /\ \A k \in DOMAIN s : IsDigit(s[k])

RECURSIVE ReadNat(_)
ReadNat(s) == IF s = <<>> THEN 0 ELSE 10 * ReadNat(SubSeq(s, 1, Len(s) - 1)) + DigitValue(s[Len(s)])

Unsigned(s) == IF s # <<>> /\ Head(s) = "-" THEN Tail(s) ELSE s

Signed(s, n) == IF s # <<>> /\ Head(s) = "-" THEN 0 - n ELSE n

\* s is the decimal text of the int n.
IsIntText(s, n) == IsNatText(Unsigned(s)) /\ Signed(s, ReadNat(Unsigned(s))) = n

\* s is decimal text, with at most three fraction digits, of n thousandths.
IsDecimalText(s, n) ==
    LET u == Unsigned(s)
        whole == SelectSeq(UpToFirst(u, "."), LAMBDA b : b # ".")
        frac == AfterFirst(u, ".")
    IN /\ IsNatText(whole)
       /\ Len(frac) <= 3
       /\ \A k \in DOMAIN frac : IsDigit(frac[k])
       /\ Signed(s, 1000 * ReadNat(whole) + ReadNat(frac \o Repeat("0", 3 - Len(frac)))) = n

\* The escape code the interface documents for each color.
DocumentedCode ==
    [RED |-> <<ESC, "[", "3", "1", "m">>, GREEN |-> <<ESC, "[", "3", "2", "m">>,
     YELLOW |-> <<ESC, "[", "3", "3", "m">>, BLUE |-> <<ESC, "[", "3", "4", "m">>,
     MAGENTA |-> <<ESC, "[", "3", "5", "m">>, CYAN |-> <<ESC, "[", "3", "6", "m">>,
     WHITE |-> <<ESC, "[", "3", "7", "m">>]

LinePrefix == DocumentedCode[call.color] \o <<"[">> \o call.type \o <<"]", " ">>

LineSuffix == <<ESC, "[", "0", "m", LF>>

\* out is one line: the color code, "[type] ", a payload, the reset code, newline.
IsOneLine ==
    LET bytes == Bytes(out)
    IN /\ Len(bytes) >= Len(LinePrefix) + Len(LineSuffix)
       /\ SubSeq(bytes, 1, Len(LinePrefix)) = LinePrefix
       /\ SubSeq(bytes, Len(bytes) - Len(LineSuffix) + 1, Len(bytes)) = LineSuffix

\* The payload of that line.
Payload == SubSeq(Bytes(out), Len(LinePrefix) + 1, Len(Bytes(out)) - Len(LineSuffix))

ValueOverloads == {"cstr", "string", "bool", "char", "int", "float", "double"}

\* The message a string overload was given.
MessageGiven == IF call.op = "cstr" THEN SubSeq(call.arg, 1, Len(call.arg) - 1) ELSE call.arg

\* The conversion characters of a format, in order ("" for a '%' that ends it).
RECURSIVE Specifiers(_)
Specifiers(format) ==
    IF format = <<>> THEN <<>>
    ELSE IF Head(format) # "%" THEN Specifiers(Tail(format))
    ELSE IF Len(format) = 1 THEN <<"">>
    ELSE <<format[2]>> \o Specifiers(Tail(Tail(format)))

OnlyKnownSpecifiers(format) ==
    \A k \in DOMAIN Specifiers(format) : Specifiers(format)[k] \in {"d", "s"}

\* Each argument has the type of the specifier at its position.
ArgumentsFit(format, args) ==
    \A k \in DOMAIN args :
        k <= Len(Specifiers(format)) =>
            (Specifiers(format)[k] = "d" <=> args[k].t = "int")

\* The format with its leading %d and %s replaced by the arguments, in order,
\* and the specifiers that have no argument left as they are.
RECURSIVE SurplusKept(_, _)
SurplusKept(format, args) ==
    IF format = <<>> THEN <<>>
    ELSE IF Head(format) # "%" \/ Len(format) = 1
    THEN <<Head(format)>> \o SurplusKept(Tail(format), args)
    ELSE IF args = <<>>
    THEN <<"%", format[2]>> \o SurplusKept(Tail(Tail(format)), args)
    ELSE (IF Head(args).t = "int" THEN IntToStr(Head(args).v) ELSE Head(args).v)
         \o SurplusKept(Tail(Tail(format)), Tail(args))

\* The conversion-type characters the interface documents.
DocumentedTypeChars ==
    {"d", "i", "u", "o", "x", "X", "f", "F", "e", "E", "g", "G", "a", "A", "c", "s", "p", "n"}

\* The first position at or after k that holds no flag, width or precision
\* character (Len + 1 when the text ends first).
RECURSIVE ScanStop(_, _)
ScanStop(text, k) ==
    IF k > Len(text) \/ ~IsFlagChar(text[k]) THEN k ELSE ScanStop(text, k + 1)

PercentAt(format) == CHOOSE k \in DOMAIN format : format[k] = "%"

\* The format has one '%', and the scan after it stops on a character.
OneSpecifier(format) ==
    Count(format, "%") = 1 /\ ScanStop(format, PercentAt(format) + 1) <= Len(format)

TypeCharFound(format) ==
    format[ScanStop(format, PercentAt(format) + 1)] \in DocumentedTypeChars

\* The documented substitution into a format with one specifier: the whole
\* specifier gives way to the text when its type character is found, only
\* the '%' when an invalid character is met first.
Substituted(format, text) ==
    LET p == PercentAt(format)
        stop == ScanStop(format, p + 1)
    IN SubSeq(format, 1, p - 1) \o text
       \o SubSeq(format, IF TypeCharFound(format) THEN stop + 1 ELSE p + 1, Len(format))

\* The first argument's text as a stream writes it, and whether a specifier
\* with that type character takes an argument of its type.
DefaultText(a) == IF a.t = "int" THEN IntToStr(a.v) ELSE a.v

FirstArgFits(format, a) ==
    TypeCharFound(format) =>
        (format[ScanStop(format, PercentAt(format) + 1)] = "s" <=> a.t = "str")

FormatCallOf(format, args) ==
    call.op = "format" /\ call.arg.format = format /\ call.arg.args = args

----------------------------------------------------------------------------
(* Claims *)

\* C1: on one cell that starts at 0, the k-th call with isSilent = true, for
\* k = 1..100, leaves the counter at k and renders k dots; the 101st leaves
\* the counter at 1 and renders one dot.
C1_FirstHundredThenWrap ==
    /\ trueCalls \in 0..MaxDots => counter = trueCalls /\ Count(out, ".") = trueCalls
    /\ trueCalls = MaxDots + 1 => counter = 1 /\ Count(out, ".") = 1

C1_Witness == trueCalls = MaxDots + 1 /\ TrueCallMade /\ counter = 1

\* C2: a call with isSilent = false leaves the counter cell and the output
\* as they were, whatever the counter value and the color.
C2_FalseCallIsNoOp ==
    [][(call'.op = "indicator" /\ call'.arg = FALSE) => (counter' = counter /\ out' = out)]_vars

C2_Witness ==
    /\ call.op = "indicator" /\ call.arg = FALSE
    /\ counter = MaxDots
    /\ Count(out, ".") = MaxDots

\* C3: with two threads each calling on its own cell, under every
\* interleaving the cell a thread passes moves only by that thread's own
\* statements (entry value, entry + 1, then 1 if that exceeded 100), so the
\* other thread's calls never change it, and the dots a finished call
\* rendered are the value of the cell it was passed.
C3_CellsIndependent ==
    \A t \in Threads :
        LET mine == cell[ref[t]]
            bumped == frame[t].entry + 1
            final == IF bumped > MaxDots THEN 1 ELSE bumped
        IN /\ pc[t] = "increment" => mine = frame[t].entry
           /\ pc[t] \in {"test", "clear", "reset"} => mine = bumped
           /\ pc[t] = "render" => mine = final
           /\ (pc[t] = "idle" /\ frame[t].isSilent) =>
                  mine = final /\ Count(written[t], ".") = mine

C3_Witness ==
    /\ pc[1] = "idle" /\ frame[1].isSilent /\ cell[ref[1]] = 1 /\ frame[1].entry = MaxDots
    /\ pc[2] = "test" /\ cell[ref[2]] = 3

\* C4: every overload that takes one value writes the color's documented
\* escape code, '[' type ']', one blank, the payload (the message, the words
\* true/false, the character, or the decimal text of the number), ESC[0m and
\* a newline, and nothing else.
C4_ValueLineShape ==
    (status = "returned" /\ call.op \in ValueOverloads) =>
        /\ IsOneLine
        /\ CASE call.op \in {"cstr", "string"} -> Payload = MessageGiven
             [] call.op = "bool" ->
                  Payload = IF call.arg THEN <<"t", "r", "u", "e">> ELSE <<"f", "a", "l", "s", "e">>
             [] call.op = "char" -> Payload = <<call.arg>>
             [] call.op = "int" -> IsIntText(Payload, call.arg)
             [] call.op \in {"float", "double"} -> IsDecimalText(Payload, call.arg)

C4_Witness ==
    /\ status = "returned" /\ call.op = "double" /\ call.color = "WHITE"
    /\ call.arg = 0 - 3141 /\ call.type = <<"I", "N", "F", "O">>

\* C5: both string overloads write a message that contains '%' verbatim: the
\* payload is the message, and the line is the one the branch for a message
\* without '%' writes.
C5_PercentVerbatim ==
    (status = "returned" /\ call.op \in {"cstr", "string"} /\ Count(MessageGiven, "%") > 0) =>
        /\ IsOneLine
        /\ Payload = MessageGiven
        /\ out = EmitLine(GetColorCode(call.color), call.type, MessageGiven)

C5_Witness ==
    /\ status = "returned" /\ call.op = "cstr"
    /\ call.arg = <<"%", "%", "a", NUL>>

\* C6: the formatted call with format "%d%%" and the int 85 writes the
\* payload "85%".
C6_PercentEscape ==
    (status # "calling" /\ FormatCallOf(<<"%", "d", "%", "%">>, <<IntArg(85)>>)) =>
        /\ status = "returned"
        /\ IsOneLine
        /\ Payload = <<"8", "5", "%">>

C6_Witness ==
    /\ status = "returned" /\ FormatCallOf(<<"%", "d", "%", "%">>, <<IntArg(85)>>)
    /\ call.color = "YELLOW" /\ call.type = <<"I", "N", "F", "O">>

\* C7: a formatted call whose format has more conversion specifiers than
\* arguments were supplied returns normally, and its payload is the format
\* with the leading specifiers replaced by the arguments and the specifiers
\* beyond the last argument still as written ("%d%d" with 85 gives "85%d").
\* Stated for the formats made of %d, %s and plain characters whose leading
\* specifiers have arguments of their types.
C7_SurplusSpecifiersKept ==
    (/\ status # "calling" /\ call.op = "format"
     /\ OnlyKnownSpecifiers(call.arg.format)
     /\ ArgumentsFit(call.arg.format, call.arg.args)
     /\ Len(Specifiers(call.arg.format)) > Len(call.arg.args)) =>
        /\ status = "returned"
        /\ IsOneLine
        /\ Payload = SurplusKept(call.arg.format, call.arg.args)

\* C11: in formatted emission (the PrintColoredMessage template), when the
\* scan after a '%' meets an invalid character before a conversion-type
\* character, only the '%' gives way to the argument's default text and the
\* characters after it are kept ("%y" with 85 is written as "85y"); when a
\* type character is found the whole specifier gives way to it.
\* Stated for formats with one '%' and a first argument of the type's kind.
C11_FallbackInEmission ==
    (/\ status # "calling" /\ call.op = "format"
     /\ OneSpecifier(call.arg.format)
     /\ FirstArgFits(call.arg.format, Head(call.arg.args))) =>
        /\ status = "returned"
        /\ IsOneLine
        /\ Payload = Substituted(call.arg.format, DefaultText(Head(call.arg.args)))

\* The same substitution holds of FormatString, the helper the template
\* does not call, whatever the type of the argument.
FormatStringSubstitutes ==
    (/\ status = "returned" /\ call.op = "FormatString"
     /\ OneSpecifier(call.arg.format)) =>
        result = Substituted(call.arg.format, DefaultText(Head(call.arg.args)))

FormatStringFallbackReached ==
    /\ status = "returned" /\ call.op = "FormatString"
    /\ call.arg.format = <<"%", "5", "y", "d">>
    /\ call.arg.args = <<IntArg(85)>>
    /\ result = <<"8", "5", "5", "y", "d">>

\* C8: when the size computation reports a negative size, FormatPrintf
\* returns the empty string and the formatted call still returns, having
\* written the color code, "[type] ", no payload, the reset code and a newline.
C8_NegativeSizeEmptyPayload ==
    (status # "calling" /\ call.op = "format" /\ size < 0) =>
        /\ status = "returned"
        /\ IsOneLine
        /\ Payload = <<>>

C8_Witness ==
    /\ status = "returned" /\ size < 0
    /\ FormatCallOf(<<"%", "d", "%">>, <<IntArg(85)>>)

\* C12: the static methods are thread-safe: when two threads make true calls
\* on the same cell, under every interleaving a call that has returned
\* rendered between 1 and 100 dots, which is the value the cell had as the
\* call ended.
C12_SharedCellStaysInRange ==
    \A t \in Threads :
        (pc[t] = "idle" /\ frame[t].isSilent) =>
            Count(written[t], ".") \in 1..MaxDots

\* C9: a true call that increments the counter past 100 first writes CR, as
\* many spaces as the widest rendered line ("[INFO] " and 100 dots), CR, and
\* flushes; the counter is then 1 and the line is rendered with one dot.
C9_ClearCoversWidestLine ==
    (TrueCallMade /\ trueCalls > MaxDots /\ counter = 1) =>
        /\ UpToFirst(out, FLUSH) =
               <<CR>> \o Repeat(" ", Len(InfoPrefix) + MaxDots) \o <<CR, FLUSH>>
        /\ Visible(AfterLastCR(out)) = InfoPrefix \o <<".">>

\* C10: on one cell that starts at 0, under any mix of true and false calls
\* and any colors, the counter stays in [0, 100]; once a true call was made
\* it is in [1, 100] and the line on the terminal is "[INFO] " followed by
\* exactly as many dots as the counter's value, with no newline.
C10_CounterInRangeAndRendered ==
    /\ counter \in 0..MaxDots
    /\ trueCalls > 0 =>
           /\ counter \in 1..MaxDots
           /\ Visible(AfterLastCR(out)) = InfoPrefix \o Repeat(".", counter)
           /\ Count(out, ".") = counter
           /\ Count(out, LF) = 0
           /\ out[Len(out)] = FLUSH

C10_Witness ==
    /\ TrueCallMade /\ call.color = "CYAN"
    /\ trueCalls = MaxDots + 2 /\ counter = 2

====
